---- MODULE Spec2Model ----
(***************************************************************************)
(* Model of patchNestjsSwagger (src/unnamed/part_000): the installer that  *)
(* replaces SchemaObjectFactory.prototype.exploreModelSchema and           *)
(* SwaggerScanner.prototype.scanApplication, the registry both wrappers    *)
(* share, and the merge-and-sort of components.schemas.                    *)
(*                                                                         *)
(* Strings are sequences of UTF-16 code units.  A JavaScript object is the *)
(* sequence of its own properties [k, v] in enumeration order: keys that   *)
(* are array indices first, in ascending numeric order, then the other     *)
(* keys in the order they were created.                                    *)
(*                                                                         *)
(* The framework's own exploreModelSchema and scanApplication, the         *)
(* OpenAPIRegistry and the OpenApiGeneratorV3 are collaborators whose code *)
(* is not part of the package; they are modelled by their contract.        *)
(* patchNestjsSwagger runs before the first document is created, as the    *)
(* README asks.                                                            *)
(***************************************************************************)
EXTENDS Integers, Sequences, FiniteSets, TLC

(* ------------------------------ bounds --------------------------------- *)

\* How many times patchNestjsSwagger may complete.
MaxInstalls == 2

(* ------------------------------ strings -------------------------------- *)

Undefined == "undefined"

\* a < b on strings: lexicographic on code units, a proper prefix is smaller.
RECURSIVE StrLess(_, _)
StrLess(a, b) ==
  IF b = <<>> THEN FALSE
  ELSE IF a = <<>> THEN TRUE
  ELSE IF a[1] # b[1] THEN a[1] < b[1]
  ELSE StrLess(Tail(a), Tail(b))

IsDigit(c) == c \in 48..57

MaxArrayIndex == <<52, 50, 57, 52, 57, 54, 55, 50, 57, 52>>   \* "4294967294"

\* a < b as numbers, for canonical decimal strings.
IndexLess(a, b) == Len(a) < Len(b) \/ (Len(a) = Len(b) /\ StrLess(a, b))

\* A property key is an array index when it is the canonical decimal form of
\* an integer in 0 .. 2^32 - 2.
IsArrayIndex(s) ==
  /\ Len(s) > 0
  /\ \A i \in 1..Len(s) : IsDigit(s[i])
  /\ (Len(s) = 1 \/ s[1] # 48)
  /\ ~IndexLess(MaxArrayIndex, s)

(* ------------------------------ objects -------------------------------- *)

ObjKeys(o) == [i \in 1..Len(o) |-> o[i].k]

ObjKeySet(o) == {o[i].k : i \in 1..Len(o)}

ObjHas(o, k) == k \in ObjKeySet(o)

ObjGet(o, k) == o[CHOOSE i \in 1..Len(o) : o[i].k = k].v

\* Number of properties that come before a new array-index key k.
IndexSlot(o, k) ==
  Cardinality({i \in 1..Len(o) :
                 IsArrayIndex(o[i].k) /\ IndexLess(o[i].k, k)})

\* o[k] = v: an existing property keeps its place and takes the new value; a
\* new array-index key goes among the array-index keys, any other new key
\* goes last.
ObjSet(o, k, v) ==
  IF ObjHas(o, k)
    THEN [i \in 1..Len(o) |-> IF o[i].k = k THEN [k |-> k, v |-> v] ELSE o[i]]
  ELSE IF IsArrayIndex(k)
    THEN SubSeq(o, 1, IndexSlot(o, k)) \o <<[k |-> k, v |-> v]>>
           \o SubSeq(o, IndexSlot(o, k) + 1, Len(o))
  ELSE Append(o, [k |-> k, v |-> v])

\* Defines the entries es, in order, on the object o.
RECURSIVE ObjAssign(_, _)
ObjAssign(o, es) ==
  IF es = <<>> THEN o
  ELSE ObjAssign(ObjSet(o, es[1].k, es[1].v), Tail(es))

ObjectFromEntries(es) == ObjAssign(<<>>, es)

ObjectEntries(o) == o

\* { ...a, ...b }
Spread(a, b) == ObjAssign(ObjAssign(<<>>, ObjectEntries(a)), ObjectEntries(b))

(* ------------------------------ sorting -------------------------------- *)

\* The comparator of the 'alpha' branch.
AlphaCompare(aKey, bKey) ==
  IF StrLess(aKey, bKey) THEN -1
  ELSE IF StrLess(bKey, aKey) THEN 1
  ELSE 0

\* String.prototype.localeCompare in the root collation, on ASCII letters and
\* digits: digits before letters, letters in alphabetical order whatever
\* their case, and on a tie at that level lower case before upper case.
IsUpper(c) == c \in 65..90

Primary(s) == [i \in 1..Len(s) |-> IF IsUpper(s[i]) THEN s[i] + 32 ELSE s[i]]

Tertiary(s) == [i \in 1..Len(s) |-> IF IsUpper(s[i]) THEN 1 ELSE 0]

LocaleCompare(aKey, bKey) ==
  IF StrLess(Primary(aKey), Primary(bKey)) THEN -1
  ELSE IF StrLess(Primary(bKey), Primary(aKey)) THEN 1
  ELSE IF StrLess(Tertiary(aKey), Tertiary(bKey)) THEN -1
  ELSE IF StrLess(Tertiary(bKey), Tertiary(aKey)) THEN 1
  ELSE 0

Compare(sort, aKey, bKey) ==
  IF sort = "alpha" THEN AlphaCompare(aKey, bKey) ELSE LocaleCompare(aKey, bKey)

\* Array.prototype.sort is stable: e goes after every entry that does not
\* compare greater than it.
RECURSIVE SortInsert(_, _, _)
SortInsert(sort, sorted, e) ==
  IF sorted = <<>> THEN <<e>>
  ELSE IF Compare(sort, sorted[Len(sorted)].k, e.k) <= 0 THEN Append(sorted, e)
  ELSE Append(SortInsert(sort, SubSeq(sorted, 1, Len(sorted) - 1), e),
              sorted[Len(sorted)])

RECURSIVE SortEntries(_, _)
SortEntries(sort, es) ==
  IF es = <<>> THEN <<>>
  ELSE SortInsert(sort, SortEntries(sort, SubSeq(es, 1, Len(es) - 1)), es[Len(es)])

\* Variant: every value but 'localeCompare' takes the 'alpha' branch.
SortSchemasAlphaElse(sort, schemas) ==
  IF sort = "localeCompare"
    THEN ObjectFromEntries(SortEntries("localeCompare", ObjectEntries(schemas)))
  ELSE ObjectFromEntries(SortEntries("alpha", ObjectEntries(schemas)))

\* The three branches that set openAPIObject.components.schemas.
SortSchemas(sort, schemas) ==
  IF sort = "alpha"
    THEN ObjectFromEntries(SortEntries("alpha", ObjectEntries(schemas)))
  ELSE IF sort = "localeCompare"
    THEN ObjectFromEntries(SortEntries("localeCompare", ObjectEntries(schemas)))
  ELSE schemas

(* ------------------------------- values -------------------------------- *)

NameLowerA == <<97>>          \* "a"
NameUpperB == <<66>>          \* "B"
Name9 == <<57>>               \* "9"
Name10 == <<49, 48>>          \* "10"
NameOfLazy == <<116, 121, 112, 101>>   \* "type"

NoSchema == "none"

\* A type reference: a class with a name and, when it was made from a zod
\* schema, the static zodSchema; lazy marks a function named 'type' that
\* returns that class when called with no arguments.
Type(lazy, name, zodSchema) == [lazy |-> lazy, name |-> name, zodSchema |-> zodSchema]

\* type.name and type.zodSchema: a lazy reference is a function called
\* 'type' and has no zodSchema of its own.
NameOf(type) == IF type.lazy THEN NameOfLazy ELSE type.name

ZodSchemaOf(type) == IF type.lazy THEN NoSchema ELSE type.zodSchema

Types ==
  { Type(TRUE, NameLowerA, NoSchema),
    Type(FALSE, NameUpperB, NoSchema),
    Type(FALSE, Name10, NoSchema),
    Type(FALSE, NameUpperB, "Z1"),
    Type(TRUE, NameUpperB, "Z2"),
    Type(FALSE, Name9, "Z1") }

\* The receiver and the schemaRefsStack of a call of exploreModelSchema.
Callers ==
  { [this |-> "factory1", stack |-> Undefined],
    [this |-> "factory2", stack |-> <<NameLowerA>>] }

\* The first argument of patchNestjsSwagger.
OptionObjects ==
  { [sort |-> Undefined, schemasSort |-> Undefined],
    [sort |-> "default", schemasSort |-> Undefined],
    [sort |-> "alpha", schemasSort |-> Undefined],
    [sort |-> "localeCompare", schemasSort |-> Undefined],
    [sort |-> "zeta", schemasSort |-> Undefined],
    [sort |-> Undefined, schemasSort |-> "alpha"] }

\* The schema object nest derives for an ordinary class, and the one the
\* generator derives from a zod schema.
NestSchema(name) == <<"nest", name>>

ZodToOpenApi(zodSchema) == <<"openapi", zodSchema>>

(* ------------------------------ registry ------------------------------- *)

\* OpenAPIRegistry: the registered schemas by name, in the order the names
\* were first registered; a name registered again takes the new schema.
Register(registry, name, zodSchema) ==
  IF \E i \in 1..Len(registry) : registry[i].k = name
    THEN [i \in 1..Len(registry) |->
            IF registry[i].k = name THEN [k |-> name, v |-> zodSchema]
            ELSE registry[i]]
    ELSE Append(registry, [k |-> name, v |-> zodSchema])

\* new OpenApiGeneratorV3(registry.definitions).generateComponents()
\*   .components?.schemas
GenerateComponents(registry) ==
  ObjectFromEntries([i \in 1..Len(registry) |->
                       [k |-> registry[i].k, v |-> ZodToOpenApi(registry[i].v)]])

(* --------------------------- exploreModelSchema ------------------------ *)

\* isLazyTypeFunc: a function whose name is 'type'.
IsLazyTypeFunc(type) == NameOf(type) = NameOfLazy

\* (type as Function)()
CallLazy(type) == [type EXCEPT !.lazy = FALSE]

\* The unpatched SchemaObjectFactory.prototype.exploreModelSchema: resolves a
\* lazy reference, puts the class's schema in schemas under its name and
\* returns its result for the class.
OrgExploreModelSchema(regs, this, type, schemas, schemaRefsStack) ==
  LET t == IF IsLazyTypeFunc(type) THEN CallLazy(type) ELSE type
  IN [installs |-> regs,
      result |-> <<"explored", NameOf(t)>>,
      schemas |-> ObjSet(schemas, NameOf(t), NestSchema(NameOf(t))),
      schemaRefsStack |-> schemaRefsStack,
      orgCalls |-> <<[this |-> this, type |-> type, schemas |-> schemas,
                      schemaRefsStack |-> schemaRefsStack]>>]

RECURSIVE ExploreAt(_, _, _, _, _, _)

\* Variant: the zod branch returns the name without registering the schema.
ExploreWithoutRegister(k, regs, this, typeArg, schemas, stackArg) ==
  LET schemaRefsStack == IF stackArg = Undefined THEN <<>> ELSE stackArg
      type == IF IsLazyTypeFunc(typeArg) THEN CallLazy(typeArg) ELSE typeArg
  IN IF ZodSchemaOf(type) = NoSchema
       THEN ExploreAt(k - 1, regs, this, type, schemas, schemaRefsStack)
       ELSE [installs |-> regs,
             result |-> NameOf(type),
             schemas |-> schemas,
             schemaRefsStack |-> stackArg,
             orgCalls |-> <<>>]

\* Variant: the original is called as a plain function, without the receiver.
ExploreWithoutReceiver(k, regs, this, typeArg, schemas, stackArg) ==
  LET schemaRefsStack == IF stackArg = Undefined THEN <<>> ELSE stackArg
      type == IF IsLazyTypeFunc(typeArg) THEN CallLazy(typeArg) ELSE typeArg
  IN IF ZodSchemaOf(type) = NoSchema
       THEN ExploreAt(k - 1, regs, Undefined, type, schemas, schemaRefsStack)
       ELSE [installs |-> [regs EXCEPT ![k].registry =
                             Register(@, NameOf(type), ZodSchemaOf(type))],
             result |-> NameOf(type),
             schemas |-> schemas,
             schemaRefsStack |-> stackArg,
             orgCalls |-> <<>>]

\* Variant: one registry shared by every install, the first one's.
ExploreWithSharedRegistry(k, regs, this, typeArg, schemas, stackArg) ==
  LET schemaRefsStack == IF stackArg = Undefined THEN <<>> ELSE stackArg
      type == IF IsLazyTypeFunc(typeArg) THEN CallLazy(typeArg) ELSE typeArg
  IN IF ZodSchemaOf(type) = NoSchema
       THEN ExploreAt(k - 1, regs, this, type, schemas, schemaRefsStack)
       ELSE [installs |-> [regs EXCEPT ![1].registry =
                             Register(@, NameOf(type), ZodSchemaOf(type))],
             result |-> NameOf(type),
             schemas |-> schemas,
             schemaRefsStack |-> stackArg,
             orgCalls |-> <<>>]

\* The function install number k puts on the prototype; what it captured as
\* orgExploreModelSchema is the function that was there before, ExploreAt(k-1).
PatchedExploreModelSchema(k, regs, this, typeArg, schemas, stackArg) ==
  LET schemaRefsStack == IF stackArg = Undefined THEN <<>> ELSE stackArg
      type == IF IsLazyTypeFunc(typeArg) THEN CallLazy(typeArg) ELSE typeArg
  IN IF ZodSchemaOf(type) = NoSchema
       THEN ExploreAt(k - 1, regs, this, type, schemas, schemaRefsStack)
       ELSE [installs |-> [regs EXCEPT ![k].registry =
                             Register(@, NameOf(type), ZodSchemaOf(type))],
             result |-> NameOf(type),
             schemas |-> schemas,
             schemaRefsStack |-> stackArg,
             orgCalls |-> <<>>]

ExploreAt(k, regs, this, type, schemas, stackArg) ==
  IF k = 0 THEN OrgExploreModelSchema(regs, this, type, schemas, stackArg)
  ELSE PatchedExploreModelSchema(k, regs, this, type, schemas, stackArg)

(* ----------------------------- scanApplication ------------------------- *)

\* Variant: the spread the other way round, the original scan's schemas last.
MergeOriginalLast(install, orgSchemas) ==
  LET doc == GenerateComponents(install.registry)
      schemas == Spread(doc, orgSchemas)
  IN SortSchemas(install.sort, schemas)

\* Variant: the original scan's schemas are left out of the merge.
MergeWithoutOriginal(install, orgSchemas) ==
  LET doc == GenerateComponents(install.registry)
      schemas == Spread(<<>>, doc)
  IN SortSchemas(install.sort, schemas)

\* Lines 68-92 of install number k, once its orgScanApplication has returned
\* a document whose components.schemas is orgSchemas.
MergeAndSort(install, orgSchemas) ==
  LET doc == GenerateComponents(install.registry)
      schemas == Spread(orgSchemas, doc)
  IN SortSchemas(install.sort, schemas)

\* The wrappers of installs 1..k return in that order, each working on what
\* the one before returned.
\* Line 66: how often the original scanApplication runs when the function
\* install number k put on the prototype is called once.
RECURSIVE OrgScanCalls(_)
OrgScanCalls(k) == IF k = 0 THEN 1 ELSE OrgScanCalls(k - 1)

RECURSIVE ScanReturn(_, _, _)
ScanReturn(k, regs, orgSchemas) ==
  IF k = 0 THEN orgSchemas
  ELSE MergeAndSort(regs[k], ScanReturn(k - 1, regs, orgSchemas))

(* -------------------------------- state -------------------------------- *)

VARIABLES
  installs,   \* one record per completed patchNestjsSwagger call, oldest first
  pc,         \* "idle", or "scanning" while the original scanApplication runs
  schemas,    \* the schema map the running original scan is building
  orgScans,   \* how often the original scanApplication ran in this build
  built,      \* whether a document build has been started
  registered, \* history: per name, the zod schema last passed to
              \* registry.register since the latest install
  last        \* the last call made and what it returned

vars == <<installs, pc, schemas, orgScans, built, registered, last>>

Names == {t.name : t \in Types}

Init ==
  /\ installs = <<>>
  /\ pc = "idle"
  /\ schemas = <<>>
  /\ orgScans = 0
  /\ built = FALSE
  /\ registered = [n \in Names |-> NoSchema]
  /\ last = [op |-> "none"]

\* patchNestjsSwagger(options, modules), called before the first document is
\* created.  Destructuring an omitted second argument throws before anything
\* is patched.
PatchNestjsSwagger(options, modulesGiven) ==
  /\ pc = "idle"
  /\ ~built
  /\ IF ~modulesGiven
       THEN /\ last' = [op |-> "patch", options |-> options,
                        modulesGiven |-> FALSE, threw |-> TRUE]
            /\ UNCHANGED <<installs, registered>>
       ELSE /\ Len(installs) < MaxInstalls
            /\ installs' = Append(installs,
                 [options |-> options,
                  sort |-> IF options.sort = Undefined THEN "default"
                           ELSE options.sort,
                  registry |-> <<>>])
            /\ registered' = [n \in Names |-> NoSchema]
            /\ last' = [op |-> "patch", options |-> options,
                        modulesGiven |-> TRUE, threw |-> FALSE]
  /\ UNCHANGED <<pc, schemas, orgScans, built>>

\* Variant: a build starts with an emptied registry.
ScanCallClearingRegistry ==
  /\ pc = "idle"
  /\ Len(installs) >= 1
  /\ pc' = "scanning"
  /\ schemas' = <<>>
  /\ orgScans' = OrgScanCalls(Len(installs))
  /\ built' = TRUE
  /\ last' = [op |-> "scanCall"]
  /\ installs' = [installs EXCEPT ![Len(installs)].registry = <<>>]
  /\ UNCHANGED registered

\* scanner.scanApplication(app, options) is called: every wrapper calls its
\* orgScanApplication first, so the original scan starts.
ScanCall ==
  /\ pc = "idle"
  /\ Len(installs) >= 1
  /\ pc' = "scanning"
  /\ schemas' = <<>>
  /\ orgScans' = OrgScanCalls(Len(installs))
  /\ built' = TRUE
  /\ last' = [op |-> "scanCall"]
  /\ UNCHANGED <<installs, registered>>

\* The running scan explores a type through the prototype's current method.
Explore(caller, type) ==
  /\ pc = "scanning"
  /\ LET r == ExploreAt(Len(installs), installs, caller.this, type, schemas,
                        caller.stack)
     IN /\ installs' = r.installs
        /\ schemas' = r.schemas
        /\ last' = [op |-> "explore", this |-> caller.this, type |-> type,
                    schemas |-> schemas, schemaRefsStack |-> caller.stack,
                    result |-> r.result, orgCalls |-> r.orgCalls,
                    stackAfter |-> r.schemaRefsStack]
  /\ registered' = IF type.zodSchema = NoSchema THEN registered
                   ELSE [registered EXCEPT ![type.name] = type.zodSchema]
  /\ UNCHANGED <<pc, orgScans, built>>

\* The original scan returns its document and every wrapper, innermost
\* first, merges, sorts and returns.
ScanReturns ==
  /\ pc = "scanning"
  /\ pc' = "idle"
  /\ last' = [op |-> "scan",
              org |-> schemas,
              inner |-> ScanReturn(Len(installs) - 1, installs, schemas),
              doc |-> ScanReturn(Len(installs), installs, schemas),
              orgScans |-> orgScans,
              explored |-> last.op = "explore"]
  /\ UNCHANGED <<installs, schemas, orgScans, built, registered>>

Next ==
  \/ \E options \in OptionObjects, modulesGiven \in BOOLEAN :
       PatchNestjsSwagger(options, modulesGiven)
  \/ ScanCall
  \/ \E caller \in Callers, type \in Types : Explore(caller, type)
  \/ ScanReturns

Spec == Init /\ [][Next]_vars

(* ------------------------------- claims -------------------------------- *)

Top == Len(installs)

TopRegistry == installs[Top].registry

\* The class a type reference stands for carries the zodSchema marker.
HasMarker(type) == type.zodSchema # NoSchema

Resolved(type) == [type EXCEPT !.lazy = FALSE]

KeysAscending(o) == \A i \in 1..(Len(o) - 1) : StrLess(o[i].k, o[i + 1].k)

NoArrayIndexKey(o) == \A i \in 1..Len(o) : ~IsArrayIndex(o[i].k)

\* C1: exploring a type reference that carries the marker (a lazy one after
\* it is resolved) returns the type's name, never calls the original
\* exploreModelSchema, leaves schemas and schemaRefsStack as they were passed,
\* and afterwards the registry holds the type's zod schema under its name.
C1_MarkerPath ==
  (last.op = "explore" /\ HasMarker(last.type)) =>
     /\ last.result = last.type.name
     /\ last.orgCalls = <<>>
     /\ schemas = last.schemas
     /\ last.stackAfter = last.schemaRefsStack
     /\ \E i \in 1..Len(TopRegistry) :
          TopRegistry[i] = [k |-> last.type.name, v |-> last.type.zodSchema]

C1_Witness ==
  /\ last.op = "explore"
  /\ HasMarker(last.type)
  /\ last.type.lazy
  /\ last.schemas # <<>>
  /\ Len(TopRegistry) = 2

\* C2 as stated: exploring a type reference without the marker calls the
\* original exploreModelSchema exactly once with the very arguments received
\* (type, schemas, schemaRefsStack) and the same receiver, and returns its
\* result.
C2_SameArguments ==
  (last.op = "explore" /\ ~HasMarker(last.type)) =>
     /\ last.orgCalls = <<[this |-> last.this, type |-> last.type,
                           schemas |-> last.schemas,
                           schemaRefsStack |-> last.schemaRefsStack]>>
     /\ last.result = <<"explored", last.type.name>>

\* C2 amended: exploring a type reference without the marker calls the
\* original exploreModelSchema exactly once, with the same receiver, the
\* resolved type (the received one when it is not lazy), the same schemas and
\* the received schemaRefsStack (an empty one when none was passed), returns
\* its result and leaves the registry unchanged.
C2_Delegation ==
  [][(last'.op = "explore" /\ ~HasMarker(last'.type)) =>
       /\ last'.orgCalls =
            <<[this |-> last'.this, type |-> Resolved(last'.type),
               schemas |-> last'.schemas,
               schemaRefsStack |-> IF last'.schemaRefsStack = Undefined
                                   THEN <<>> ELSE last'.schemaRefsStack]>>
       /\ last'.result = <<"explored", last'.type.name>>
       /\ installs' = installs]_vars

C2_Witness ==
  /\ last.op = "explore"
  /\ ~HasMarker(last.type)
  /\ last.type.lazy
  /\ last.schemaRefsStack = Undefined
  /\ Len(installs) = 2
  /\ TopRegistry # <<>>

\* C3: a key that both the original scan's schemas and the registry hold has,
\* in the returned components.schemas, the schema generated from the
\* registry, whatever the sort policy.
C3_RegistryWins ==
  last.op = "scan" =>
    \A i \in 1..Len(TopRegistry) :
       ObjHas(last.inner, TopRegistry[i].k) =>
          ObjGet(last.doc, TopRegistry[i].k) = <<"openapi", TopRegistry[i].v>>

C3_Witness ==
  /\ last.op = "scan"
  /\ installs[Top].sort = "alpha"
  /\ \E i \in 1..Len(TopRegistry) :
       /\ ObjHas(last.inner, TopRegistry[i].k)
       /\ ObjGet(last.inner, TopRegistry[i].k) = <<"nest", TopRegistry[i].k>>
       /\ TopRegistry[i].v = "Z2"

\* C4: the keys of the returned components.schemas are the original scan's
\* keys together with the registry's, each once, and every key has the value
\* the merge gave it, whatever the sort policy.
C4_NothingLost ==
  last.op = "scan" =>
    /\ ObjKeySet(last.doc) =
         ObjKeySet(last.inner) \cup {TopRegistry[i].k : i \in 1..Len(TopRegistry)}
    /\ Cardinality(ObjKeySet(last.doc)) = Len(last.doc)
    /\ \A i \in 1..Len(TopRegistry) :
         ObjGet(last.doc, TopRegistry[i].k) = <<"openapi", TopRegistry[i].v>>
    /\ \A i \in 1..Len(last.inner) :
         (\A j \in 1..Len(TopRegistry) : TopRegistry[j].k # last.inner[i].k) =>
            ObjGet(last.doc, last.inner[i].k) = last.inner[i].v

C4_Witness ==
  /\ last.op = "scan"
  /\ installs[Top].sort = "localeCompare"
  /\ Len(last.inner) = 1
  /\ Len(TopRegistry) = 2
  /\ Len(last.doc) = 3

\* C5: with sort 'alpha' the keys of the returned components.schemas are in
\* ascending code-point order.
C5_AlphaAscending ==
  (last.op = "scan" /\ installs[Top].sort = "alpha") => KeysAscending(last.doc)

\* The keys the claim of C6 expects: the original scan's keys, then the
\* generated keys the original scan does not have.
NewKeys(inner, generated) ==
  LET IsNew(k) == ~ObjHas(inner, k) IN SelectSeq(ObjKeys(generated), IsNew)

NotRecognized(sort) == sort \notin {"alpha", "localeCompare"}

\* C6 as stated: with sort 'default', omitted or unrecognized, the returned
\* keys are the original scan's keys in their order followed by the
\* generated keys the original scan does not have, in generation order.
C6_OriginalThenGenerated ==
  (last.op = "scan" /\ NotRecognized(installs[Top].sort)) =>
     ObjKeys(last.doc) =
       ObjKeys(last.inner) \o NewKeys(last.inner, GenerateComponents(TopRegistry))

\* C6 amended: with sort 'default', omitted or unrecognized, installing does
\* not throw and the returned keys are: the keys that are array indices
\* first, in ascending numeric order, then the other keys, the original
\* scan's in their order followed by the generated ones the original scan
\* does not have, in generation order.
C6_MergeOrder ==
  /\ (last.op = "patch" /\ last.modulesGiven) => ~last.threw
  /\ (last.op = "scan" /\ NotRecognized(installs[Top].sort)) =>
       LET IsIndex(k) == IsArrayIndex(k)
           NotIndex(k) == ~IsArrayIndex(k)
           keys == ObjKeys(last.doc)
           expected == ObjKeys(last.inner)
                         \o NewKeys(last.inner, GenerateComponents(TopRegistry))
           indices == SelectSeq(keys, IsIndex)
       IN /\ keys = indices \o SelectSeq(expected, NotIndex)
          /\ \A i \in 1..(Len(indices) - 1) : IndexLess(indices[i], indices[i + 1])
          /\ {indices[i] : i \in 1..Len(indices)} =
               {expected[i] : i \in {j \in 1..Len(expected) : IsIndex(expected[j])}}

C6_Witness ==
  /\ last.op = "scan"
  /\ installs[Top].sort = "zeta"
  /\ Len(last.doc) = 4
  /\ ~KeysAscending(last.doc)
  /\ \E i \in 1..Len(TopRegistry) : ObjHas(last.inner, TopRegistry[i].k)

\* C7: patchNestjsSwagger called with the options alone, the second argument
\* not supplied, completes without raising an error.
C7_ModulesOptional ==
  (last.op = "patch" /\ ~last.modulesGiven) => ~last.threw

\* C8: after an install called with schemasSort: 'alpha', every document
\* build returns components.schemas with its keys in ascending order (stated
\* for keys that are not array indices, whose order is the subject of C5).
C8_SchemasSortSelects ==
  (last.op = "scan" /\ installs[Top].options.schemasSort = "alpha"
     /\ NoArrayIndexKey(last.doc)) => KeysAscending(last.doc)

\* C9: after an install the registry holds, for each name registered since,
\* exactly one schema, the one registered last; a build does not change the
\* registry, so every document returned holds the schema of every name
\* registered so far, also of those not explored in that build.
C9_RegistryKept ==
  Len(installs) >= 1 =>
    /\ \A n \in Names :
         Cardinality({i \in 1..Len(TopRegistry) : TopRegistry[i].k = n}) =
           IF registered[n] = NoSchema THEN 0 ELSE 1
    /\ \A i \in 1..Len(TopRegistry) : TopRegistry[i].v = registered[TopRegistry[i].k]
    /\ last.op = "scan" =>
         \A n \in Names :
            registered[n] # NoSchema =>
               /\ ObjHas(last.doc, n)
               /\ ObjGet(last.doc, n) = <<"openapi", registered[n]>>

C9_Witness ==
  /\ last.op = "scan"
  /\ ~last.explored
  /\ Len(installs) = 1
  /\ registered[NameUpperB] = "Z2"
  /\ registered[Name9] = "Z1"
  /\ Len(last.doc) = 2

\* C10: with two installs a marker-carrying type is registered in the second
\* install's registry only, and a build runs the original scan once, then the
\* first install's merge and sort on its result (its registry is empty), then
\* the second install's on top.
C10_TwoInstalls ==
  Len(installs) = 2 =>
    /\ installs[1].registry = <<>>
    /\ (last.op = "explore" /\ HasMarker(last.type)) =>
         \E i \in 1..Len(installs[2].registry) :
            installs[2].registry[i].k = last.type.name
    /\ last.op = "scan" =>
         /\ last.orgScans = 1
         /\ last.inner = SortSchemas(installs[1].sort, last.org)
         /\ last.doc =
              SortSchemas(installs[2].sort,
                          Spread(last.inner, GenerateComponents(installs[2].registry)))

\* Two installs, 'alpha' then 'default', whose document has another key order
\* than one install with 'default' gives for the same scan and registry.
C10_Witness ==
  /\ Len(installs) = 2
  /\ installs[1].sort = "alpha"
  /\ installs[2].sort = "default"
  /\ last.op = "scan"
  /\ installs[2].registry # <<>>
  /\ ObjKeys(last.doc) #
       ObjKeys(Spread(last.org, GenerateComponents(installs[2].registry)))

====
